---------------------------- MODULE Spec2Model ----------------------------
(***************************************************************************)
(* Model of src/astf_core.py: the TrustMetrics entity with its dictionary  *)
(* serialization, and AISystemProfile.calculate_trust_score.               *)
(*                                                                         *)
(* Python values are tagged records [tag, v]:                              *)
(*   "float": v is the number in units of 1/Scale (fixed point, exact for  *)
(*            the values drawn here), "nan": float('nan'),                 *)
(*   "int":   v is the integer, "str": v is the sequence of characters,    *)
(*   "dt":    v is a datetime record, "none": None,                        *)
(*   "raise": evaluation raised an exception (only as a result).           *)
(***************************************************************************)
EXTENDS Integers, Sequences, FiniteSets, TLC

VARIABLES
    profile,    \* the AISystemProfile under test
    result,     \* what the last calculate_trust_score() call returned
    calls,      \* calls made since the caller last changed the profile
    m,          \* a constructed TrustMetrics (serialization)
    data,       \* the caller's mapping (serialization)
    data0,      \* the mapping as it was when from_dict was called
    restored,   \* what from_dict returned
    outcome,    \* how the last from_dict call ended
    origin,     \* where `data` came from: "caller" or "to_dict"
    wpc,        \* writer thread: position in its two-field update
    rpc,        \* reader thread: position inside calculate_trust_score
    rtmp,       \* reader thread: the terms evaluated so far
    pre,        \* the metrics before the writer's update
    post        \* the metrics after the writer's update

vars == <<profile, result, calls, m, data, data0, restored, outcome, origin,
          wpc, rpc, rtmp, pre, post>>

scoreVars == <<profile, result, calls>>
serialVars == <<m, data, data0, restored, outcome, origin>>
concVars == <<wpc, rpc, rtmp, pre, post>>

---------------------------------------------------------------------------
(* Values *)

Scale == 10000

Float(n) == [tag |-> "float", v |-> n]
PyInt(n) == [tag |-> "int", v |-> n]
Str(s) == [tag |-> "str", v |-> s]
Dt(d) == [tag |-> "dt", v |-> d]
NaN == [tag |-> "nan", v |-> 0]
None == [tag |-> "none", v |-> 0]
Raise == [tag |-> "raise", v |-> 0]

IsNumber(x) == x.tag \in {"float", "int", "nan"}

\* x as a float: an int converts exactly
AsFloat(x) == IF x.tag = "int" THEN Float(x.v * Scale) ELSE x

\* x * y as Python evaluates it; a non-number operand raises TypeError
PyMul(x, y) ==
    IF x.tag = "raise" \/ y.tag = "raise" THEN Raise
    ELSE IF ~IsNumber(x) \/ ~IsNumber(y) THEN Raise
    ELSE IF x.tag = "nan" \/ y.tag = "nan" THEN NaN
    ELSE IF x.tag = "int" /\ y.tag = "int" THEN PyInt(x.v * y.v)
    ELSE Float((AsFloat(x).v * AsFloat(y).v) \div Scale)

\* x / y (true division), y a non-zero int literal
PyTrueDiv(x, y) ==
    IF x.tag = "raise" THEN Raise
    ELSE IF ~IsNumber(x) THEN Raise
    ELSE IF x.tag = "nan" THEN NaN
    ELSE Float(AsFloat(x).v \div y.v)

\* x + y
PyAdd(x, y) ==
    IF x.tag = "raise" \/ y.tag = "raise" THEN Raise
    ELSE IF ~IsNumber(x) \/ ~IsNumber(y) THEN Raise
    ELSE IF x.tag = "nan" \/ y.tag = "nan" THEN NaN
    ELSE IF x.tag = "int" /\ y.tag = "int" THEN PyInt(x.v + y.v)
    ELSE Float(AsFloat(x).v + AsFloat(y).v)

\* x < y; every comparison with nan is False
PyLess(x, y) ==
    /\ x.tag \in {"float", "int"}
    /\ y.tag \in {"float", "int"}
    /\ AsFloat(x).v < AsFloat(y).v

\* min(x, y): the first argument unless the second is smaller
PyMin(x, y) ==
    IF x.tag = "raise" \/ y.tag = "raise" THEN Raise
    ELSE IF ~IsNumber(x) \/ ~IsNumber(y) THEN Raise
    ELSE IF PyLess(y, x) THEN y ELSE x

\* max(x, y): the first argument unless the second is larger
PyMax(x, y) ==
    IF x.tag = "raise" \/ y.tag = "raise" THEN Raise
    ELSE IF ~IsNumber(x) \/ ~IsNumber(y) THEN Raise
    ELSE IF PyLess(x, y) THEN y ELSE x

RECURSIVE PySumFrom(_, _)
PySumFrom(acc, s) ==
    IF s = <<>> THEN acc ELSE PySumFrom(PyAdd(acc, Head(s)), Tail(s))

\* sum(s): starts from the int 0
PySum(s) == PySumFrom(PyInt(0), s)

---------------------------------------------------------------------------
(* datetime *)

\* datetime values are records of the seven naive fields (no tzinfo)
Epoch == [year |-> 2024, month |-> 1, day |-> 1, hour |-> 0, minute |-> 0,
          second |-> 0, microsecond |-> 0]

Digits == <<"0", "1", "2", "3", "4", "5", "6", "7", "8", "9">>

\* the value of a digit character, -1 for any other character
DigitOf(c) ==
    IF \E i \in 1..10 : Digits[i] = c
    THEN (CHOOSE i \in 1..10 : Digits[i] = c) - 1
    ELSE 0 - 1

RECURSIVE DigitsValue(_, _)
DigitsValue(acc, s) ==
    IF s = <<>> THEN acc
    ELSE IF DigitOf(Head(s)) < 0 THEN 0 - 1
    ELSE DigitsValue(acc * 10 + DigitOf(Head(s)), Tail(s))

\* the number a run of digits denotes, -1 when it is empty or not all digits
ParseDigits(s) == IF s = <<>> THEN 0 - 1 ELSE DigitsValue(0, s)

\* n in exactly w digits, zero padded ("%0wd")
RECURSIVE Pad(_, _)
Pad(n, w) ==
    IF w = 0 THEN <<>> ELSE Pad(n \div 10, w - 1) \o <<Digits[(n % 10) + 1]>>

RECURSIVE Pow10(_)
Pow10(k) == IF k = 0 THEN 1 ELSE 10 * Pow10(k - 1)

IsLeap(y) == (y % 4 = 0 /\ y % 100 # 0) \/ y % 400 = 0

DaysInMonth(y, mo) ==
    IF mo = 2 THEN (IF IsLeap(y) THEN 29 ELSE 28)
    ELSE IF mo \in {4, 6, 9, 11} THEN 30 ELSE 31

\* the range checks of the datetime constructor
ValidDateTime(d) ==
    /\ d.year >= 1 /\ d.year <= 9999
    /\ d.month >= 1 /\ d.month <= 12
    /\ d.day >= 1 /\ d.day <= DaysInMonth(d.year, d.month)
    /\ d.hour >= 0 /\ d.hour <= 23
    /\ d.minute >= 0 /\ d.minute <= 59
    /\ d.second >= 0 /\ d.second <= 59
    /\ d.microsecond >= 0 /\ d.microsecond <= 999999

\* faulty variant: isoformat(timespec='seconds'), the microseconds dropped
isoformat_Seconds(d) ==
    Pad(d.year, 4) \o <<"-">> \o Pad(d.month, 2) \o <<"-">> \o Pad(d.day, 2)
        \o <<"T">> \o Pad(d.hour, 2) \o <<":">> \o Pad(d.minute, 2)
        \o <<":">> \o Pad(d.second, 2)

\* datetime.isoformat(): YYYY-MM-DDTHH:MM:SS, and .ffffff when the
\* microseconds are not zero
isoformat(d) ==
    Pad(d.year, 4) \o <<"-">> \o Pad(d.month, 2) \o <<"-">> \o Pad(d.day, 2)
        \o <<"T">> \o Pad(d.hour, 2) \o <<":">> \o Pad(d.minute, 2)
        \o <<":">> \o Pad(d.second, 2)
        \o (IF d.microsecond # 0 THEN <<".">> \o Pad(d.microsecond, 6)
            ELSE <<>>)

\* the time part HH[:MM[:SS[.f+]]] as <<hour, minute, second, microsecond>>,
\* a field -1 when the text is malformed
ParseTime(t) ==
    LET n == Len(t)
        shape == /\ n \in {2, 5, 8} \/ n >= 10
                 /\ n >= 5 => t[3] = ":"
                 /\ n >= 8 => t[6] = ":"
                 /\ n >= 10 => t[9] = "."
        frac == IF n >= 10 THEN SubSeq(t, 10, (IF n > 15 THEN 15 ELSE n))
                ELSE <<>>
        fracAll == IF n >= 10 THEN SubSeq(t, 10, n) ELSE <<>>
    IN  IF ~shape THEN <<0 - 1, 0 - 1, 0 - 1, 0 - 1>>
        ELSE <<ParseDigits(SubSeq(t, 1, 2)),
               IF n >= 5 THEN ParseDigits(SubSeq(t, 4, 5)) ELSE 0,
               IF n >= 8 THEN ParseDigits(SubSeq(t, 7, 8)) ELSE 0,
               IF n >= 10
               THEN (IF ParseDigits(fracAll) < 0 THEN 0 - 1
                     ELSE ParseDigits(frac) * Pow10(6 - Len(frac)))
               ELSE 0>>

\* datetime.fromisoformat(s) for the texts YYYY-MM-DD[*HH[:MM[:SS[.f+]]]]
\* (any one character may separate date and time; fraction digits past the
\* sixth are dropped); Raise for a ValueError
fromisoformat(s) ==
    LET n == Len(s) IN
    IF n < 10 \/ n = 11 THEN Raise
    ELSE IF s[5] # "-" \/ s[8] # "-" THEN Raise
    ELSE LET t == IF n = 10 THEN <<0, 0, 0, 0>>
                  ELSE ParseTime(SubSeq(s, 12, n))
             d == [year |-> ParseDigits(SubSeq(s, 1, 4)),
                   month |-> ParseDigits(SubSeq(s, 6, 7)),
                   day |-> ParseDigits(SubSeq(s, 9, 10)),
                   hour |-> t[1], minute |-> t[2], second |-> t[3],
                   microsecond |-> t[4]]
         IN  IF ValidDateTime(d) THEN Dt(d) ELSE Raise

---------------------------------------------------------------------------
(* TrustMetrics *)

FieldNames == {"reliability_score", "ethical_alignment", "transparency_index",
               "consistency_score", "collaboration_history",
               "conflict_resolutions", "verification_timestamp"}

\* the dataclass defaults
TrustMetricsDefaults ==
    [reliability_score |-> Float(0), ethical_alignment |-> Float(0),
     transparency_index |-> Float(0), consistency_score |-> Float(0),
     collaboration_history |-> PyInt(0), conflict_resolutions |-> PyInt(0),
     verification_timestamp |-> None]

\* __post_init__: a timestamp left None becomes utcnow(), here `now`
TrustMetrics_post_init(self, now) ==
    IF self.verification_timestamp = None
    THEN [self EXCEPT !.verification_timestamp = Dt(now)]
    ELSE self

\* faulty variant: keywords that are no fields are ignored
TrustMetrics_new_IgnoresUnknown(kwargs, now) ==
    TrustMetrics_post_init(
        [f \in FieldNames |-> IF f \in DOMAIN kwargs THEN kwargs[f]
                              ELSE TrustMetricsDefaults[f]], now)

\* TrustMetrics(**kwargs): an unknown keyword raises TypeError, a missing
\* one takes its default
TrustMetrics_new(kwargs, now) ==
    IF ~(DOMAIN kwargs \subseteq FieldNames) THEN Raise
    ELSE TrustMetrics_post_init(
             [f \in FieldNames |-> IF f \in DOMAIN kwargs THEN kwargs[f]
                                   ELSE TrustMetricsDefaults[f]], now)

\* to_dict, lines 60-64: asdict, then the timestamp as its isoformat();
\* Raise when the timestamp has no isoformat method
to_dict(self) ==
    IF self.verification_timestamp.tag # "dt" THEN Raise
    ELSE [f \in FieldNames |->
             IF f = "verification_timestamp"
             THEN Str(isoformat(self.verification_timestamp.v))
             ELSE self[f]]

\* line 69: the mapping has a timestamp and it is a str
FromDict_Parses(d) ==
    /\ "verification_timestamp" \in DOMAIN d
    /\ d["verification_timestamp"].tag = "str"

\* line 70, right-hand side
FromDict_Parsed(d) == fromisoformat(d["verification_timestamp"].v)

\* the caller's mapping after lines 69-70: the assignment stores the parsed
\* timestamp in it (nothing is stored when the parse raises)
FromDict_DataAfter(d) ==
    IF FromDict_Parses(d) /\ FromDict_Parsed(d) # Raise
    THEN [d EXCEPT !["verification_timestamp"] = FromDict_Parsed(d)]
    ELSE d

\* from_dict, lines 66-71: the instance returned, or Raise
from_dict(d, now) ==
    IF FromDict_Parses(d) /\ FromDict_Parsed(d) = Raise THEN Raise
    ELSE TrustMetrics_new(FromDict_DataAfter(d), now)

---------------------------------------------------------------------------
(* AISystemProfile *)

\* __init__ and __post_init__: absent trust_metrics become TrustMetrics()
AISystemProfile_init(tm, now) ==
    [system_id |-> "sys-1", domain |-> "finance", capabilities |-> <<"nlp">>,
     ethical_framework_version |-> "1.0.0",
     trust_metrics |-> IF tm = None
                       THEN TrustMetrics_post_init(TrustMetricsDefaults, now)
                       ELSE tm,
     last_interaction |-> None,
     blacklisted_domains |-> {}]

W_reliability == 3000
W_ethical_alignment == 2500
W_transparency == 2000
W_consistency == 1500
W_collaboration == 1000
BonusPerResolution == 500
BonusCap == 1000
CollabSaturation == 100

\* faulty variant: the reliability weight mistyped as 0.03
Term_reliability_Mistyped(tm) ==
    PyMul(tm.reliability_score, Float(W_reliability \div 10))

\* faulty variant: the collaboration term without its saturation at 1.0
Term_collaboration_Unsaturated(tm) ==
    PyMul(PyTrueDiv(tm.collaboration_history, PyInt(CollabSaturation)),
          Float(W_collaboration))

\* faulty variant: the resolution bonus without its cap
ResolutionBonus_Uncapped(tm) ==
    PyMul(tm.conflict_resolutions, Float(BonusPerResolution))

\* faulty variant: the total returned without clamping
Clamp_Missing(total) == total

\* faulty variant: the exception handler re-raises
OnException_Reraise(r) == r

\* faulty variant: the call records the time of the evaluation on the profile
ProfileAfterScore_Touches(self) ==
    [self EXCEPT !.last_interaction = Dt(Epoch)]

\* the five weighted terms, lines 107-113
Term_reliability(tm) == PyMul(tm.reliability_score, Float(W_reliability))
Term_ethical(tm) == PyMul(tm.ethical_alignment, Float(W_ethical_alignment))
Term_transparency(tm) == PyMul(tm.transparency_index, Float(W_transparency))
Term_consistency(tm) == PyMul(tm.consistency_score, Float(W_consistency))
Term_collaboration(tm) ==
    PyMul(PyMin(PyTrueDiv(tm.collaboration_history, PyInt(CollabSaturation)),
                Float(Scale)),
          Float(W_collaboration))

\* line 116
ResolutionBonus(tm) ==
    PyMin(PyMul(tm.conflict_resolutions, Float(BonusPerResolution)),
          Float(BonusCap))

\* line 120
Clamp(total) == PyMax(Float(0), PyMin(Float(Scale), total))

\* lines 117-120, from the evaluated terms
Combine(scores, bonus) == Clamp(PyAdd(PySum(scores), bonus))

\* the try body, lines 94-120; Raise when an exception leaves it
ScoreBody(self) ==
    IF self.trust_metrics = None THEN Float(0)
    ELSE LET tm == self.trust_metrics IN
         Combine(<<Term_reliability(tm), Term_ethical(tm),
                   Term_transparency(tm), Term_consistency(tm),
                   Term_collaboration(tm)>>,
                 ResolutionBonus(tm))

\* except Exception: return 0.0, lines 122-124
OnException(r) == IF r.tag = "raise" THEN Float(0) ELSE r

\* what the call returns
calculate_trust_score(self) == OnException(ScoreBody(self))

\* the profile the call leaves behind: it assigns nothing
ProfileAfterScore(self) == self

---------------------------------------------------------------------------
(* The scoring model: one caller that changes the metrics of a profile and *)
(* asks for its score.                                                     *)

MaxCalls == 2
MaxCollabUnits == 2
MaxResolutions == 2

NoResult == [tag |-> "nocall", v |-> 0]

ScoreFields == {"reliability_score", "ethical_alignment", "transparency_index",
                "consistency_score"}
MetricFields == ScoreFields \cup {"collaboration_history", "conflict_resolutions"}

\* values a caller may store in a score field: below 0, in range, above 1,
\* nan, and a non-number
ScoreVals == {Float(0 - Scale \div 2), Float(0), Float(Scale),
              Float(Scale + Scale \div 2), NaN, Str(<<"x">>)}
CollabVals == {PyInt(100 * k) : k \in (0 - 1)..MaxCollabUnits}
                  \cup {PyInt(50), Str(<<"x">>)}
ResolutionVals == {PyInt(k) : k \in (0 - 1)..MaxResolutions}
                      \cup {PyInt(20), Str(<<"x">>)}

SerialIdle ==
    /\ m = None
    /\ data = None
    /\ data0 = None
    /\ restored = None
    /\ outcome = "none"
    /\ origin = "none"

ConcIdle ==
    /\ wpc = "off"
    /\ rpc = "off"
    /\ rtmp = <<>>
    /\ pre = None
    /\ post = None

Init ==
    /\ profile = AISystemProfile_init(None, Epoch)
    /\ result = NoResult
    /\ calls = 0
    /\ SerialIdle
    /\ ConcIdle

\* score = profile.calculate_trust_score()
Calculate ==
    /\ calls < MaxCalls
    /\ result' = calculate_trust_score(profile)
    /\ profile' = ProfileAfterScore(profile)
    /\ calls' = calls + 1
    /\ UNCHANGED <<serialVars, concVars>>

\* the caller stores a new value in a field of the metrics
SetField(f, v) ==
    /\ profile.trust_metrics # None
    /\ profile' = [profile EXCEPT !.trust_metrics[f] = v]
    /\ result' = NoResult
    /\ calls' = 0
    /\ UNCHANGED <<serialVars, concVars>>

UpdateScore == \E f \in ScoreFields, v \in ScoreVals : SetField(f, v)
UpdateCollaboration == \E v \in CollabVals : SetField("collaboration_history", v)
UpdateResolutions == \E v \in ResolutionVals : SetField("conflict_resolutions", v)

\* profile.trust_metrics = None, after construction
ClearMetrics ==
    /\ profile.trust_metrics # None
    /\ profile' = [profile EXCEPT !.trust_metrics = None]
    /\ result' = NoResult
    /\ calls' = 0
    /\ UNCHANGED <<serialVars, concVars>>

\* profile.trust_metrics = TrustMetrics()
ResetMetrics ==
    /\ profile.trust_metrics = None
    /\ profile' = [profile EXCEPT !.trust_metrics =
                       TrustMetrics_post_init(TrustMetricsDefaults, Epoch)]
    /\ result' = NoResult
    /\ calls' = 0
    /\ UNCHANGED <<serialVars, concVars>>

Next ==
    \/ Calculate
    \/ UpdateScore
    \/ UpdateCollaboration
    \/ UpdateResolutions
    \/ ClearMetrics
    \/ ResetMetrics

Spec == Init /\ [][Next]_vars

---------------------------------------------------------------------------
(* Properties of calculate_trust_score, checked under Spec *)

Called == calls > 0
HasMetrics == profile.trust_metrics # None
AllNumeric == \A f \in MetricFields : IsNumber(profile.trust_metrics[f])
WithField(f, v) == [profile EXCEPT !.trust_metrics[f] = v]
AbsDiff(a, b) == IF a < b THEN b - a ELSE a - b
IntMin(a, b) == IF a < b THEN a ELSE b

\* C1: whatever numbers the metric fields hold (below 0, above 1, nan, any
\* integer counts), the score returned is a float r with 0 <= r <= 1.
C1_ScoreInRange ==
    (Called /\ HasMetrics /\ AllNumeric)
        => /\ result.tag = "float"
           /\ 0 <= result.v
           /\ result.v <= Scale

\* a score field above 1 and another below 0, and the call has returned
C1_Witness ==
    /\ Called /\ HasMetrics /\ AllNumeric
    /\ profile.trust_metrics.reliability_score = Float(Scale + Scale \div 2)
    /\ profile.trust_metrics.ethical_alignment = Float(0 - Scale \div 2)
    /\ profile.trust_metrics.conflict_resolutions = PyInt(20)
    /\ result = Float(Scale)

\* C2: the call never ends in an exception, and with the metrics absent or a
\* metric field holding a non-number it returns exactly 0.0.
C2_NeverRaises ==
    Called =>
        /\ result.tag = "float"
        /\ (~HasMetrics \/ ~AllNumeric) => result = Float(0)

\* a non-numeric field next to fields that would score, and the call returned
C2_Witness ==
    /\ Called /\ HasMetrics
    /\ profile.trust_metrics.reliability_score = Str(<<"x">>)
    /\ profile.trust_metrics.ethical_alignment = Float(Scale)
    /\ profile.trust_metrics.conflict_resolutions = PyInt(2)
    /\ result = Float(0)

C5_BonusCap ==
    (/\ Called /\ HasMetrics
     /\ profile.trust_metrics.conflict_resolutions.tag = "int")
        => /\ ResolutionBonus(profile.trust_metrics).tag = "float"
           /\ ResolutionBonus(profile.trust_metrics).v <= BonusCap
           /\ (/\ \A f \in ScoreFields : profile.trust_metrics[f] = Float(0)
               /\ profile.trust_metrics.collaboration_history = PyInt(0)
               /\ profile.trust_metrics.conflict_resolutions.v >= 0)
                  => \A k \in ResolutionVals :
                         (k.tag = "int" /\ k.v >= 0) =>
                             AbsDiff(result.v,
                                 calculate_trust_score(
                                     WithField("conflict_resolutions", k)).v)
                                 <= BonusCap

\* 20 resolutions, everything else zero: the score is the capped bonus
C5_Witness ==
    /\ Called /\ HasMetrics
    /\ \A f \in ScoreFields : profile.trust_metrics[f] = Float(0)
    /\ profile.trust_metrics.collaboration_history = PyInt(0)
    /\ profile.trust_metrics.conflict_resolutions = PyInt(20)
    /\ result = Float(BonusCap)

\* C7: a call leaves every field of the profile and of its metrics as it
\* was, on each of its three paths, and a call that follows another with no
\* update in between returns the same score.
C7_NoMutation ==
    [][calls' = calls + 1 =>
          /\ profile' = profile
          /\ Called => result' = result]_vars

\* a second call in a row has returned, with a score that is not the default
C7_Witness ==
    /\ calls >= 2
    /\ HasMetrics
    /\ result = Float(Scale \div 2)

---------------------------------------------------------------------------
(* The serialization model: a caller constructs TrustMetrics and turns     *)
(* them into a mapping, or hands from_dict a mapping of its own.           *)

MaxSecond == 1

DateTimes ==
    [year : {2024}, month : {2, 12}, day : {1, 29}, hour : {0, 23},
     minute : {5}, second : (0..MaxSecond) \cup {59},
     microsecond : {0, 5, 120000, 999999}]

\* the instants utcnow() may return
NowTimes == {d \in DateTimes : d.month = 12 /\ d.day = 29 /\ d.hour = 23
                               /\ d.microsecond \in {0, 5}}

Stamp == [year |-> 2024, month |-> 2, day |-> 1, hour |-> 0, minute |-> 5,
          second |-> 0, microsecond |-> 120000]

\* the text of Stamp: 2024-02-01T00:05:00.120000
StampText ==
    <<"2", "0", "2", "4", "-", "0", "2", "-", "0", "1", "T", "0", "0", ":",
      "0", "5", ":", "0", "0", ".", "1", "2", "0", "0", "0", "0">>

\* texts fromisoformat accepts: what isoformat writes, and the same instant
\* with a blank separator, as a date, to the minute, to the millisecond
WellFormedTexts ==
    {isoformat(d) : d \in DateTimes}
        \cup {StampText,
              [StampText EXCEPT ![11] = " "],
              SubSeq(StampText, 1, 10),
              SubSeq(StampText, 1, 16),
              SubSeq(StampText, 1, 23)}

\* texts that are no ISO-8601 timestamps: empty, a word, cut inside a field,
\* a trailing letter, a letter in the year, a slash in the date, month 13,
\* 30 February, hour 24, second 60
MalformedTexts ==
    {<<>>, <<"b", "a", "d">>,
     SubSeq(StampText, 1, 15),
     SubSeq(StampText, 1, 20),
     StampText \o <<"x">>,
     [StampText EXCEPT ![1] = "x"],
     [StampText EXCEPT ![5] = "/"],
     [StampText EXCEPT ![6] = "1", ![7] = "3"],
     [StampText EXCEPT ![9] = "3", ![10] = "0"],
     [StampText EXCEPT ![12] = "2", ![13] = "4"],
     [StampText EXCEPT ![18] = "6", ![19] = "0"]}

TimestampVals ==
    {Str(t) : t \in WellFormedTexts \cup MalformedTexts}
        \cup {Dt(Stamp), None, PyInt(5)}

FullMapping(ts) ==
    [reliability_score |-> Float(7500), ethical_alignment |-> Float(2500),
     transparency_index |-> Float(0), consistency_score |-> Float(Scale),
     collaboration_history |-> PyInt(150), conflict_resolutions |-> PyInt(2),
     verification_timestamp |-> ts]

PartialMapping(ts) ==
    [reliability_score |-> Float(7500), verification_timestamp |-> ts]

\* a mapping with a key that is no field of TrustMetrics
ExtraKeyMapping(ts) == FullMapping(ts) @@ ("trust_level" :> PyInt(3))

CallerMappings ==
    {FullMapping(ts) : ts \in TimestampVals}
        \cup {PartialMapping(ts) : ts \in TimestampVals}
        \cup {ExtraKeyMapping(ts) : ts \in TimestampVals}
        \cup {[reliability_score |-> Float(7500)],
              [reliability_score |-> Float(7500), trust_level |-> PyInt(3)]}

InitSerial ==
    /\ profile = None
    /\ result = NoResult
    /\ calls = 0
    /\ SerialIdle
    /\ ConcIdle

\* m = TrustMetrics(reliability_score=r, collaboration_history=c,
\*                  verification_timestamp=ts), utcnow() returning `now`
Construct ==
    \E r \in {Float(0), Float(7500)}, c \in {PyInt(0), PyInt(150)},
       ts \in {Dt(d) : d \in DateTimes} \cup {None}, now \in NowTimes :
        /\ m = None
        /\ data = None
        /\ m' = TrustMetrics_new(
                    [reliability_score |-> r, collaboration_history |-> c,
                     verification_timestamp |-> ts], now)
        /\ data' = None
        /\ data0' = None
        /\ restored' = None
        /\ outcome' = "none"
        /\ origin' = "none"
        /\ UNCHANGED <<scoreVars, concVars>>

\* data = m.to_dict()
ToDict ==
    /\ m # None
    /\ origin = "none"
    /\ data' = to_dict(m)
    /\ origin' = "to_dict"
    /\ UNCHANGED <<m, data0, restored, outcome, scoreVars, concVars>>

\* the caller builds a mapping of its own
CallerMapping ==
    /\ m = None
    /\ data = None
    /\ \E d \in CallerMappings : data' = d
    /\ data0' = None
    /\ restored' = None
    /\ outcome' = "none"
    /\ origin' = "caller"
    /\ UNCHANGED <<m, scoreVars, concVars>>

\* restored = TrustMetrics.from_dict(data), utcnow() returning `now`
FromDict ==
    /\ data # None
    /\ outcome = "none"
    /\ \E now \in NowTimes :
           LET r == from_dict(data, now) IN
           /\ restored' = (IF r = Raise THEN None ELSE r)
           /\ outcome' = (IF r = Raise THEN "raised" ELSE "returned")
    /\ data0' = data
    /\ data' = FromDict_DataAfter(data)
    /\ UNCHANGED <<m, origin, scoreVars, concVars>>

NextSerial ==
    \/ Construct
    \/ ToDict
    \/ CallerMapping
    \/ FromDict

SpecSerial == InitSerial /\ [][NextSerial]_vars

---------------------------------------------------------------------------
(* Properties of to_dict and from_dict, checked under SpecSerial *)

FromDictDone == outcome # "none"

\* C6: from_dict(m.to_dict()) returns an instance equal to m in every field,
\* the timestamp included, whether it was supplied or defaulted.
C6_RoundTrip ==
    (origin = "to_dict" /\ FromDictDone)
        => /\ outcome = "returned"
           /\ restored = m
           /\ \A f \in FieldNames : restored[f] = m[f]

\* a timestamp whose microseconds need their leading zeros has gone through
C6_Witness ==
    /\ origin = "to_dict" /\ FromDictDone
    /\ m.verification_timestamp.v.microsecond = 5
    /\ m.collaboration_history = PyInt(150)
    /\ data0["verification_timestamp"].tag = "str"
    /\ restored = m

HadUnknownKey == ~(DOMAIN data0 \subseteq FieldNames)
HadMalformedTimestamp ==
    /\ "verification_timestamp" \in DOMAIN data0
    /\ data0["verification_timestamp"].tag = "str"
    /\ data0["verification_timestamp"].v \in MalformedTexts

C10_MappingUnchanged == FromDictDone => data = data0

---------------------------------------------------------------------------
(* The concurrency model: one thread stores two fields of the metrics, one *)
(* after the other, while another thread runs calculate_trust_score on the *)
(* same profile. The source takes no lock anywhere, so the interpreter may *)
(* switch threads between any two attribute accesses.                      *)

\* the metrics before and after the update
MetricsWith(r, c) ==
    [TrustMetrics_post_init(TrustMetricsDefaults, Epoch)
        EXCEPT !.reliability_score = r, !.collaboration_history = c]

InitConc ==
    /\ \E r0 \in {Float(0), Float(Scale \div 2)}, c0 \in {PyInt(0), PyInt(50)},
          r1 \in {Float(Scale \div 2), Float(Scale)},
          c1 \in {PyInt(50), PyInt(100)} :
           /\ pre = MetricsWith(r0, c0)
           /\ post = MetricsWith(r1, c1)
           /\ profile = AISystemProfile_init(MetricsWith(r0, c0), Epoch)
    /\ result = NoResult
    /\ calls = 0
    /\ wpc = "reliability"
    /\ rpc = "check"
    /\ rtmp = <<>>
    /\ SerialIdle

\* writer: profile.trust_metrics.reliability_score = r1
WriteReliability ==
    /\ wpc = "reliability"
    /\ profile' = [profile EXCEPT !.trust_metrics.reliability_score =
                       post.reliability_score]
    /\ wpc' = "collaboration"
    /\ UNCHANGED <<result, calls, rpc, rtmp, pre, post, serialVars>>

\* writer: profile.trust_metrics.collaboration_history = c1
WriteCollaboration ==
    /\ wpc = "collaboration"
    /\ profile' = [profile EXCEPT !.trust_metrics.collaboration_history =
                       post.collaboration_history]
    /\ wpc' = "done"
    /\ UNCHANGED <<result, calls, rpc, rtmp, pre, post, serialVars>>

\* reader, line 94: the metrics are there
ReadCheck ==
    /\ rpc = "check"
    /\ rpc' = (IF profile.trust_metrics = None THEN "return" ELSE "terms")
    /\ UNCHANGED <<profile, result, calls, wpc, rtmp, pre, post, serialVars>>

\* reader, lines 108-112 and 116: the next term, from the field as it is now
ReadTerm ==
    /\ rpc = "terms"
    /\ LET tm == profile.trust_metrics
           k == Len(rtmp) + 1
           t == IF k = 1 THEN Term_reliability(tm)
                ELSE IF k = 2 THEN Term_ethical(tm)
                ELSE IF k = 3 THEN Term_transparency(tm)
                ELSE IF k = 4 THEN Term_consistency(tm)
                ELSE IF k = 5 THEN Term_collaboration(tm)
                ELSE ResolutionBonus(tm)
       IN  /\ rtmp' = Append(rtmp, t)
           /\ rpc' = (IF k = 6 THEN "return" ELSE "terms")
    /\ UNCHANGED <<profile, result, calls, wpc, pre, post, serialVars>>

\* reader, lines 117-124: the score from the terms it evaluated
ReadReturn ==
    /\ rpc = "return"
    /\ result' = (IF Len(rtmp) = 6
                  THEN OnException(Combine(SubSeq(rtmp, 1, 5), rtmp[6]))
                  ELSE Float(0))
    /\ rpc' = "done"
    /\ UNCHANGED <<profile, calls, wpc, rtmp, pre, post, serialVars>>

NextConc ==
    \/ WriteReliability
    \/ WriteCollaboration
    \/ ReadCheck
    \/ ReadTerm
    \/ ReadReturn

SpecConc == InitConc /\ [][NextConc]_vars

\* C8: the score a concurrent reader gets is the score of the metrics as
\* they were before the update or as they are after it, never of a mixture.
C8_NoTornRead ==
    rpc = "done" =>
        \/ result = calculate_trust_score([profile EXCEPT !.trust_metrics = pre])
        \/ result = calculate_trust_score([profile EXCEPT !.trust_metrics = post])

=============================================================================
